---- MODULE Spec2Model ----
(***************************************************************************)
(* State-machine model of eventsourcing_django/recorders.py: the Django    *)
(* aggregate, application and process recorders over the stored-event and  *)
(* notification-tracking tables.                                           *)
(*                                                                         *)
(* Threads call insert_events on a recorder.  One call is the steps        *)
(*   InsertEvents -> Serialize -> SaveRecord* -> SaveTracking -> Commit    *)
(* and a save that raises rolls the transaction back and leaves the call.  *)
(* Rows written inside transaction.atomic carry the writing thread as      *)
(* owner until Commit; the reads see the committed rows only.  A save      *)
(* whose key is held by a row of another open transaction waits for the    *)
(* end of that transaction.                                                *)
(***************************************************************************)
EXTENDS Integers, Sequences, FiniteSets, TLC

\* ---------------------------------------------------------------- bounds
MaxVersion == 2
MaxBatch == 2
MaxCalls == 2
MaxTrackingId == 1
MaxPosition == 2
MaxReads == 2
MaxConnections == 3

\* ---------------------------------------------------------------- inputs
Threads == {1, 2}
Apps == {"app1", "app2"}
Upstreams == {"upstream"}
OriginatorIds == {"A", "B"}
Versions == 1..MaxVersion
NotificationIds == 1..MaxTrackingId

\* an optional argument is the empty set (None) or a singleton
None == {}
Some(x) == {x}
Optional(S) == {None} \cup {{x} : x \in S}

\* the bytes a caller hands in; the backend may hand back a memoryview
Bytes(d) == [type |-> "bytes", data |-> d]
TopicOf(t) == IF t = 1 THEN "topic1" ELSE "topic2"
StateOf(t) == IF t = 1 THEN Bytes("state1") ELSE Bytes("state2")

\* StoredEvent values thread t passes to insert_events
StoredEvents(t) ==
    {e \in [originator_id : OriginatorIds, originator_version : Versions,
            topic : {TopicOf(t)}, state : {StateOf(t)}] :
        e.originator_id = "B" => e.originator_version = 1}

SeqsUpTo(S, n) == UNION {[1..k -> S] : k \in 0..n}

Batches(t) == SeqsUpTo(StoredEvents(t), MaxBatch)

\* the batches of a process recorder's calls: events of one aggregate
TrackedBatches(t) ==
    SeqsUpTo({e \in StoredEvents(t) : e.originator_id = "A"}, MaxBatch)

Trackings == [application_name : Upstreams, notification_id : NotificationIds]

\* the calls of a process application that follows two upstream logs: a
\* tracking value alone or with the first event of an aggregate
UpstreamNames == {"upstream", "other"}

Positions ==
    [application_name : UpstreamNames, notification_id : 1..MaxPosition]

ProcessBatches(t) ==
    SeqsUpTo({e \in StoredEvents(t) :
                 e.originator_id = "A" /\ e.originator_version = 1}, 1)

\* ----------------------------------------------------------------- state
VARIABLES
    connection,        \* [vendor, name] of the database behind `using`
    application_name,  \* per thread: application_name of the recorder it uses
    recorder,          \* per thread: identity of the recorder object it uses
    lock,              \* per recorder object: thread holding self.lock, 0 if free
    table_lock,        \* thread holding LOCK TABLE ... IN EXCLUSIVE MODE, 0 if none
    records,           \* rows of the stored-event table
    tracking_records,  \* rows of the notification-tracking table
    next_id,           \* next value of the auto-increment id column
    pc,                \* per thread: position inside insert_events
    stored_events,     \* per thread: the stored_events argument
    kwargs,            \* per thread: the tracking keyword argument (optional)
    saved,             \* per thread: number of records saved so far
    call,              \* per thread: number of the call in progress / last call
    calls,             \* number of insert_events calls started
    log,               \* per call number: what was called and how it ended
    accepted,          \* the records handed to calls that returned normally
    last_id_seen,      \* the paging consumer: id of the last notification it got
    received,          \* the paging consumer: ids in the order it got them
    operation,         \* per thread: the read operation in progress (optional)
    result,            \* per thread: how its last read operation ended
    reads,             \* number of read operations started
    created,           \* the connections created so far, in order
    handler,           \* per thread: position inside the connection_created handler
    journal_modes,     \* the module-level dict journal_modes
    journal_mode,      \* per database file: the journal mode the file is in
    pragmas            \* the PRAGMA statements executed, in order

store == <<connection, application_name, recorder, lock, table_lock, records,
           tracking_records, next_id, pc, stored_events, kwargs, saved, call,
           calls, log, accepted>>

reader == <<last_id_seen, received>>

ops == <<operation, result, reads>>

signal == <<created, handler, journal_modes, journal_mode, pragmas>>

vars == <<store, reader, ops, signal>>

Committed == 0

\* ------------------------------------------------------------ connection
\* database names that contain ":memory:" or "mode=memory"
MemoryNames == {":memory:", "file:eventsourcing?mode=memory&cache=shared"}

Connections ==
    {[vendor |-> "postgresql", name |-> "eventsourcing"],
     [vendor |-> "mysql", name |-> "eventsourcing"],
     [vendor |-> "sqlite", name |-> ":memory:"]}

\* the database files of the sqlite connections that get created
FileNames == {"db.sqlite3", "other.sqlite3"}

\* the backends of a recorder with callers in several threads: the three
\* above and a sqlite database file
LockConnections ==
    Connections \cup {[vendor |-> "sqlite", name |-> "db.sqlite3"]}

detect_sqlite(c) == c.vendor = "sqlite"

detect_sqlite_memory_mode(c) == c.name \in MemoryNames

\* DjangoAggregateRecorder.__init__: self.lock is a Lock or None
HasLock(c) == detect_sqlite(c) /\ detect_sqlite_memory_mode(c)

\* two recorder objects, one per application
RecorderIds == {1, 2}
AppOf(r) == IF r = 1 THEN "app1" ELSE "app2"

\* ---------------------------------------------------------------- errors
\* the exception classes of django.db
BackendExceptions ==
    {"django.db.Error", "django.db.InterfaceError", "django.db.DatabaseError",
     "django.db.DataError", "django.db.OperationalError",
     "django.db.IntegrityError", "django.db.InternalError",
     "django.db.ProgrammingError", "django.db.NotSupportedError"}

\* the classes of django.db an exception of class e is an instance of
Superclasses(e) ==
    IF e \notin BackendExceptions \/ e = "django.db.Error" THEN {e}
    ELSE IF e \in {"django.db.InterfaceError", "django.db.DatabaseError"}
         THEN {e, "django.db.Error"}
         ELSE {e, "django.db.DatabaseError", "django.db.Error"}

IsInstance(e, cls) == cls \in Superclasses(e)

\* variant: the DatabaseError clause comes before its subclasses
errorsDatabaseErrorFirst(e) ==
    IF IsInstance(e, "django.db.InterfaceError") THEN "InterfaceError"
    ELSE IF IsInstance(e, "django.db.DatabaseError") THEN "DatabaseError"
    ELSE IF IsInstance(e, "django.db.Error") THEN "PersistenceError"
    ELSE e

\* variant: the IntegrityError clause raises the kind of the clause above it
errorsIntegrityAsOperational(e) ==
    IF IsInstance(e, "django.db.InterfaceError") THEN "InterfaceError"
    ELSE IF IsInstance(e, "django.db.DataError") THEN "DataError"
    ELSE IF IsInstance(e, "django.db.OperationalError") THEN "OperationalError"
    ELSE IF IsInstance(e, "django.db.IntegrityError") THEN "OperationalError"
    ELSE IF IsInstance(e, "django.db.InternalError") THEN "InternalError"
    ELSE IF IsInstance(e, "django.db.ProgrammingError") THEN "ProgrammingError"
    ELSE IF IsInstance(e, "django.db.NotSupportedError") THEN "NotSupportedError"
    ELSE IF IsInstance(e, "django.db.DatabaseError") THEN "DatabaseError"
    ELSE IF IsInstance(e, "django.db.Error") THEN "PersistenceError"
    ELSE e

\* variant: the last clause catches every exception
errorsEveryException(e) ==
    IF IsInstance(e, "django.db.InterfaceError") THEN "InterfaceError"
    ELSE IF IsInstance(e, "django.db.DataError") THEN "DataError"
    ELSE IF IsInstance(e, "django.db.OperationalError") THEN "OperationalError"
    ELSE IF IsInstance(e, "django.db.IntegrityError") THEN "IntegrityError"
    ELSE IF IsInstance(e, "django.db.InternalError") THEN "InternalError"
    ELSE IF IsInstance(e, "django.db.ProgrammingError") THEN "ProgrammingError"
    ELSE IF IsInstance(e, "django.db.NotSupportedError") THEN "NotSupportedError"
    ELSE IF IsInstance(e, "django.db.DatabaseError") THEN "DatabaseError"
    ELSE "PersistenceError"

\* the except chain of the errors decorator, first match wins; an exception
\* no clause matches leaves the wrapper as it is
errors(e) ==
    IF IsInstance(e, "django.db.InterfaceError") THEN "InterfaceError"
    ELSE IF IsInstance(e, "django.db.DataError") THEN "DataError"
    ELSE IF IsInstance(e, "django.db.OperationalError") THEN "OperationalError"
    ELSE IF IsInstance(e, "django.db.IntegrityError") THEN "IntegrityError"
    ELSE IF IsInstance(e, "django.db.InternalError") THEN "InternalError"
    ELSE IF IsInstance(e, "django.db.ProgrammingError") THEN "ProgrammingError"
    ELSE IF IsInstance(e, "django.db.NotSupportedError") THEN "NotSupportedError"
    ELSE IF IsInstance(e, "django.db.DatabaseError") THEN "DatabaseError"
    ELSE IF IsInstance(e, "django.db.Error") THEN "PersistenceError"
    ELSE e

\* ------------------------------------------------------------------ rows
\* the rows a query outside any transaction sees
VisibleRecords == {r \in records : r.owner = Committed}

VisibleTrackingRecords == {r \in tracking_records : r.owner = Committed}

\* unique (application_name, originator_id, originator_version)
SameEventKey(r, q) ==
    /\ r.application_name = q.application_name
    /\ r.originator_id = q.originator_id
    /\ r.originator_version = q.originator_version

\* unique (application_name, upstream_application_name, notification_id)
SameTrackingKey(r, q) ==
    /\ r.application_name = q.application_name
    /\ r.upstream_application_name = q.upstream_application_name
    /\ r.notification_id = q.notification_id

\* variant: every record gets the first version
RecordFirstVersion(t, stored_event) ==
    [application_name |-> application_name[t],
     originator_id |-> stored_event.originator_id,
     originator_version |-> 1,
     topic |-> stored_event.topic,
     state |-> stored_event.state]

\* variant: the records of every recorder carry one application name
RecordOneApplication(t, stored_event) ==
    [application_name |-> "app1",
     originator_id |-> stored_event.originator_id,
     originator_version |-> stored_event.originator_version,
     topic |-> stored_event.topic,
     state |-> stored_event.state]

\* self.model(application_name=..., originator_id=..., ...) of _insert_events
Record(t, stored_event) ==
    [application_name |-> application_name[t],
     originator_id |-> stored_event.originator_id,
     originator_version |-> stored_event.originator_version,
     topic |-> stored_event.topic,
     state |-> stored_event.state]

\* NotificationTrackingRecord(application_name=..., ...) of _insert_events
TrackingRecord(t, tracking) ==
    [application_name |-> application_name[t],
     upstream_application_name |-> tracking.application_name,
     notification_id |-> tracking.notification_id]

\* variant: the save runs in autocommit mode, outside any transaction
OwnerAutocommit(t) == Committed

\* record.save(using=self.using) inside transaction.atomic(using=self.using):
\* the row belongs to the open transaction of the saving thread
Owner(t) == t

\* variant: the tracking record is saved outside the transaction of the events
TrackingOwnerAutocommit(t) == Committed

TrackingOwner(t) == t

\* the row in the table while the transaction of thread t is open
Row(rec, id, t) ==
    [id |-> id, owner |-> Owner(t), call |-> call[t],
     application_name |-> rec.application_name,
     originator_id |-> rec.originator_id,
     originator_version |-> rec.originator_version,
     topic |-> rec.topic, state |-> rec.state]

TrackingRow(rec, t) ==
    [owner |-> TrackingOwner(t), call |-> call[t],
     application_name |-> rec.application_name,
     upstream_application_name |-> rec.upstream_application_name,
     notification_id |-> rec.notification_id]

\* ------------------------------------------------------------------ Init
\* no read operation has been called
NoOperation ==
    /\ operation = [t \in Threads |-> None]
    /\ result = [t \in Threads |-> [outcome |-> "none", cause |-> "none"]]
    /\ reads = 0

\* the module is loaded: journal_modes = {} and no connection exists yet
NoConnection ==
    /\ created = <<>>
    /\ handler = [t \in Threads |-> [pc |-> "idle", connection |-> 0, mode |-> "none"]]
    /\ journal_modes = [n \in {} |-> "WAL"]
    /\ journal_mode = [n \in FileNames |-> "delete"]
    /\ pragmas = <<>>

Init ==
    /\ connection \in Connections
    /\ recorder = [t \in Threads |-> 1]
    /\ application_name = [t \in Threads |-> AppOf(recorder[t])]
    /\ lock = [r \in RecorderIds |-> 0]
    /\ table_lock = 0
    /\ records = {}
    /\ tracking_records = {}
    /\ next_id = 1
    /\ pc = [t \in Threads |-> "idle"]
    /\ stored_events = [t \in Threads |-> <<>>]
    /\ kwargs = [t \in Threads |-> None]
    /\ saved = [t \in Threads |-> 0]
    /\ call = [t \in Threads |-> 0]
    /\ calls = 0
    /\ log = <<>>
    /\ accepted = {}
    /\ last_id_seen = 0
    /\ received = <<>>
    /\ NoOperation
    /\ NoConnection

config == <<connection, application_name, recorder>>

\* --------------------------------------------------------------- actions
\* variant: the tracking value is not looked at
AfterSaveEventsOnly(batch, tracking, n) ==
    IF n < Len(batch) THEN "save" ELSE "commit"

\* where a call continues once n of its records are saved
AfterSave(batch, tracking, n) ==
    IF n < Len(batch) THEN "save"
    ELSE IF tracking # None THEN "tracking" ELSE "commit"

\* a caller enters insert_events(stored_events, tracking=...)
Enter(t, batch, tracking) ==
    /\ pc[t] = "idle"
    /\ calls < MaxCalls
    /\ stored_events' = [stored_events EXCEPT ![t] = batch]
    /\ kwargs' = [kwargs EXCEPT ![t] = tracking]
    /\ log' = Append(log,
          [thread |-> t, stored_events |-> batch, tracking |-> tracking,
           application_name |-> application_name[t],
           outcome |-> "running", cause |-> "none", written |-> 0,
           overlap |-> {call[u] : u \in {v \in Threads : pc[v] # "idle"}},
           conflict |-> \E i \in 1..Len(batch), r \in VisibleRecords :
                            SameEventKey(r, Record(t, batch[i])),
           tracked |-> \E k \in tracking, r \in VisibleTrackingRecords :
                            SameTrackingKey(r, TrackingRecord(t, k))])
    /\ calls' = calls + 1
    /\ call' = [call EXCEPT ![t] = calls + 1]
    /\ saved' = [saved EXCEPT ![t] = 0]
    /\ pc' = [pc EXCEPT ![t] = "serialize"]
    /\ UNCHANGED <<config, reader, ops, signal, lock, table_lock, records,
                   tracking_records, next_id, accepted>>

\* insert_events(stored_events) on an aggregate or application recorder
InsertEvents(t) ==
    \E batch \in Batches(t) : Enter(t, batch, None)

\* insert_events(stored_events, tracking=...) on a process recorder
InsertEventsTracking(t) ==
    \E batch \in TrackedBatches(t), tracking \in Optional(Trackings) :
        Enter(t, batch, tracking)

\* insert_events(stored_events, tracking=...) of a process application
InsertEventsProcess(t) ==
    \E batch \in ProcessBatches(t), tracking \in Optional(Positions) :
        Enter(t, batch, tracking)

\* insert_events(stored_events, tracking=...) with at most one event
InsertEventsShort(t) ==
    \E batch \in ProcessBatches(t), tracking \in Optional(Trackings) :
        Enter(t, batch, tracking)

\* self.lock is acquired by serialize() when the recorder has one
TakesLock(c) == HasLock(c)

\* variant: no table lock on any backend
TakesTableLockNever(c) == FALSE

\* _lock_table: LOCK TABLE ... IN EXCLUSIVE MODE on postgresql only
TakesTableLock(c) == c.vendor = "postgresql"

\* with self.serialize(): with transaction.atomic(...): self._lock_table()
\* (a recorder has a lock only on sqlite and locks the table only on
\* postgresql, so the two waits never follow one another)
Serialize(t) ==
    /\ pc[t] = "serialize"
    /\ IF TakesLock(connection)
       THEN /\ lock[recorder[t]] = 0
            /\ lock' = [lock EXCEPT ![recorder[t]] = t]
       ELSE UNCHANGED lock
    /\ IF TakesTableLock(connection)
       THEN /\ table_lock = 0
            /\ table_lock' = t
       ELSE UNCHANGED table_lock
    /\ pc' = [pc EXCEPT ![t] = AfterSave(stored_events[t], kwargs[t], 0)]
    /\ UNCHANGED <<config, reader, ops, signal, records, tracking_records, next_id,
                   stored_events, kwargs, saved, call, calls, log, accepted>>

\* variant: serialize() is left without self.lock.release()
ReleaseKeepingLock(t) ==
    /\ table_lock' = IF table_lock = t THEN 0 ELSE table_lock
    /\ lock' = lock
    /\ pc' = [pc EXCEPT ![t] = "idle"]
    /\ stored_events' = [stored_events EXCEPT ![t] = <<>>]
    /\ kwargs' = [kwargs EXCEPT ![t] = None]
    /\ saved' = [saved EXCEPT ![t] = 0]

\* leaving transaction.atomic and serialize: locks are given back
Release(t) ==
    /\ table_lock' = IF table_lock = t THEN 0 ELSE table_lock
    /\ lock' = IF lock[recorder[t]] = t
               THEN [lock EXCEPT ![recorder[t]] = 0] ELSE lock
    /\ pc' = [pc EXCEPT ![t] = "idle"]
    /\ stored_events' = [stored_events EXCEPT ![t] = <<>>]
    /\ kwargs' = [kwargs EXCEPT ![t] = None]
    /\ saved' = [saved EXCEPT ![t] = 0]

\* variant: the rows of the transaction take the place of the table
CommitRowsReplace(S, t) ==
    {[r EXCEPT !.owner = Committed] : r \in {q \in S : q.owner = t}}

\* transaction.atomic exits normally: the rows of the transaction commit
CommitRows(S, t) ==
    {IF r.owner = t THEN [r EXCEPT !.owner = Committed] ELSE r : r \in S}

\* variant: the rows written before the exception are kept
RollbackRowsKeep(S, t) == CommitRows(S, t)

\* transaction.atomic exits with an exception: the rows of the transaction go
RollbackRows(S, t) == {r \in S : r.owner # t}

\* a save raised e: transaction.atomic rolls back, errors re-raises
Raise(t, e) ==
    /\ records' = RollbackRows(records, t)
    /\ tracking_records' = RollbackRows(tracking_records, t)
    /\ log' = [log EXCEPT ![call[t]].outcome = errors(e),
                          ![call[t]].cause = e,
                          ![call[t]].written = saved[t]]
    /\ Release(t)
    /\ UNCHANGED <<config, reader, ops, signal, next_id, call, calls, accepted>>

\* for record in records: record.save(using=self.using)
SaveRecord(t) ==
    /\ pc[t] = "save"
    /\ saved[t] < Len(stored_events[t])
    /\ LET rec == Record(t, stored_events[t][saved[t] + 1])
           clash == {r \in records : SameEventKey(r, rec)}
       IN  IF clash = {}
           THEN /\ records' = records \cup {Row(rec, next_id, t)}
                /\ next_id' = next_id + 1
                /\ saved' = [saved EXCEPT ![t] = saved[t] + 1]
                /\ pc' = [pc EXCEPT ![t] =
                             AfterSave(stored_events[t], kwargs[t], saved[t] + 1)]
                /\ UNCHANGED <<config, reader, ops, signal, lock, table_lock,
                               tracking_records, stored_events, kwargs, call, calls, log, accepted>>
           ELSE \* a clash with a row of an open transaction waits for its end
                /\ \A r \in clash : r.owner \in {Committed, t}
                /\ Raise(t, "django.db.IntegrityError")

\* DjangoProcessRecorder._insert_events: the tracking record
SaveTracking(t) ==
    /\ pc[t] = "tracking"
    /\ LET rec == TrackingRecord(t, CHOOSE k \in kwargs[t] : TRUE)
           clash == {r \in tracking_records : SameTrackingKey(r, rec)}
       IN  IF clash = {}
           THEN /\ tracking_records' = tracking_records \cup {TrackingRow(rec, t)}
                /\ pc' = [pc EXCEPT ![t] = "commit"]
                /\ UNCHANGED <<config, reader, ops, signal, lock, table_lock,
                               records, next_id, stored_events, kwargs, saved, call, calls, log,
                               accepted>>
           ELSE /\ \A r \in clash : r.owner \in {Committed, t}
                /\ Raise(t, "django.db.IntegrityError")

\* the end of insert_events without an exception
Commit(t) ==
    /\ pc[t] = "commit"
    /\ records' = CommitRows(records, t)
    /\ tracking_records' = CommitRows(tracking_records, t)
    /\ log' = [log EXCEPT ![call[t]].outcome = "ok",
                          ![call[t]].written = saved[t]]
    /\ accepted' = accepted \cup
                    {Record(t, stored_events[t][i]) : i \in 1..Len(stored_events[t])}
    /\ Release(t)
    /\ UNCHANGED <<config, reader, ops, signal, next_id, call, calls>>

\* a backend call inside the transaction of insert_events raises e
Fault(t) ==
    /\ pc[t] \in {"save", "tracking", "commit"}
    /\ \E e \in BackendExceptions : Raise(t, e)

\* ------------------------------------------------------- read operations
ReadOperations ==
    {"select_events", "select_notifications", "max_notification_id",
     "max_tracking_id"}

\* the limit argument: an int for select_notifications, optional for
\* select_events, absent for the others
ReadLimits(name) ==
    IF name = "select_notifications" THEN {Some(-1), Some(1)}
    ELSE IF name = "select_events" THEN {None, Some(-1), Some(1)}
    ELSE {None}

\* a caller enters a read operation
Call(t, name, limit) ==
    /\ pc[t] = "idle"
    /\ reads < MaxReads
    /\ operation' = [operation EXCEPT ![t] = Some([name |-> name, limit |-> limit])]
    /\ result' = [result EXCEPT ![t] = [outcome |-> "running", cause |-> "none"]]
    /\ reads' = reads + 1
    /\ pc' = [pc EXCEPT ![t] = "read"]
    /\ UNCHANGED <<config, reader, signal, lock, table_lock, records,
                   tracking_records, next_id, stored_events, kwargs, saved, call,
                   calls, log, accepted>>

ReadOperation(t) ==
    \E name \in ReadOperations : \E limit \in ReadLimits(name) :
        Call(t, name, limit)

\* with self.serialize(): of a read operation
ReadSerialize(t) ==
    /\ pc[t] = "read"
    /\ IF TakesLock(connection)
       THEN /\ lock[recorder[t]] = 0
            /\ lock' = [lock EXCEPT ![recorder[t]] = t]
       ELSE UNCHANGED lock
    /\ pc' = [pc EXCEPT ![t] = "query"]
    /\ UNCHANGED <<config, reader, ops, signal, table_lock, records,
                   tracking_records, next_id, stored_events, kwargs, saved, call,
                   calls, log, accepted>>

\* the read operation leaves serialize() and returns, or raises what the
\* errors wrapper makes of the exception e
EndRead(t, outcome, e) ==
    /\ result' = [result EXCEPT ![t] = [outcome |-> outcome, cause |-> e]]
    /\ operation' = [operation EXCEPT ![t] = None]
    /\ Release(t)
    /\ UNCHANGED <<config, reader, signal, reads, records, tracking_records,
                   next_id, call, calls, log, accepted>>

\* the query of a read operation: q[0:limit] with a negative limit raises
\* ValueError ("Negative indexing is not supported."), otherwise the rows
\* are fetched and the operation returns
Query(t) ==
    /\ pc[t] = "query"
    /\ LET op == CHOOSE o \in operation[t] : TRUE
       IN  IF \E l \in op.limit : l < 0
           THEN EndRead(t, errors("ValueError"), "ValueError")
           ELSE EndRead(t, "returned", "none")

\* the backend call of a read operation raises e
ReadFault(t) ==
    /\ pc[t] = "query"
    /\ \E e \in BackendExceptions : EndRead(t, errors(e), e)

\* ---------------------------------------------------- connection_created
\* the connections Django creates: to two sqlite files, to an in-memory
\* sqlite database and to a postgresql database
SignalConnections ==
    {[vendor |-> "sqlite", name |-> n] : n \in FileNames \cup {":memory:"}}
    \cup {[vendor |-> "postgresql", name |-> "eventsourcing"]}

\* journal_modes.get(db_name)
Get(dict, key) == IF key \in DOMAIN dict THEN dict[key] ELSE "None"

\* mode[0][0].upper()
Upper(mode) ==
    IF mode = "wal" THEN "WAL" ELSE IF mode = "delete" THEN "DELETE" ELSE mode

\* the handler is called for a new connection c in thread t: it goes on to
\* the pragmas for a sqlite file whose name journal_modes does not hold
set_journal_mode_wal_on_sqlite_file_db(t, c) ==
    /\ handler[t].pc = "idle"
    /\ Len(created) < MaxConnections
    /\ created' = Append(created, c)
    /\ IF /\ detect_sqlite(c) /\ ~detect_sqlite_memory_mode(c)
          /\ Get(journal_modes, c.name) # "WAL"
       THEN handler' = [handler EXCEPT ![t] =
                           [pc |-> "query", connection |-> Len(created) + 1,
                            mode |-> "none"]]
       ELSE UNCHANGED handler
    /\ UNCHANGED <<store, reader, ops, journal_modes, journal_mode, pragmas>>

ConnectionCreated(t) ==
    \E c \in SignalConnections : set_journal_mode_wal_on_sqlite_file_db(t, c)

\* cursor.execute("PRAGMA journal_mode;"); mode = cursor.fetchall()
QueryJournalMode(t) ==
    /\ handler[t].pc = "query"
    /\ pragmas' = Append(pragmas, [connection |-> handler[t].connection,
                                   statement |-> "PRAGMA journal_mode;"])
    /\ handler' = [handler EXCEPT
                     ![t].mode = journal_mode[created[handler[t].connection].name],
                     ![t].pc = "switch"]
    /\ UNCHANGED <<store, reader, ops, created, journal_modes, journal_mode>>

\* if mode[0][0].upper() != "WAL": cursor.execute("PRAGMA journal_mode=WAL;")
SetJournalModeWal(t) ==
    /\ handler[t].pc = "switch"
    /\ IF Upper(handler[t].mode) # "WAL"
       THEN /\ pragmas' = Append(pragmas,
                               [connection |-> handler[t].connection,
                                statement |-> "PRAGMA journal_mode=WAL;"])
            /\ journal_mode' =
                   [journal_mode EXCEPT
                       ![created[handler[t].connection].name] = "wal"]
       ELSE UNCHANGED <<pragmas, journal_mode>>
    /\ handler' = [handler EXCEPT ![t].pc = "store"]
    /\ UNCHANGED <<store, reader, ops, created, journal_modes>>

\* journal_modes[db_name] = "WAL"
StoreJournalMode(t) ==
    /\ handler[t].pc = "store"
    /\ LET db_name == created[handler[t].connection].name
       IN  journal_modes' =
               [n \in DOMAIN journal_modes \cup {db_name} |->
                   IF n = db_name THEN "WAL" ELSE journal_modes[n]]
    /\ handler' = [handler EXCEPT ![t].pc = "idle"]
    /\ UNCHANGED <<store, reader, ops, created, journal_mode, pragmas>>

\* ----------------------------------------------------------------- reads
\* a read enters serialize(): it waits while another caller holds the lock
CanRead(t) == TakesLock(connection) => lock[recorder[t]] = 0

\* the value the backend hands back for a BinaryField
Fetched(state) ==
    IF connection.vendor = "postgresql"
    THEN [type |-> "memoryview", data |-> state.data]
    ELSE state

\* variant: the fetched value is handed on as it is
ToBytesIdentity(state) == state

\* bytes(r.state) if isinstance(r.state, memoryview) else r.state
ToBytes(state) ==
    IF state.type = "memoryview" THEN [type |-> "bytes", data |-> state.data]
    ELSE state

\* order_by("field") is ascending, order_by("-field") descending
Descending(ordering) == ordering \in {"-originator_version", "-id", "-notification_id"}

Field(ordering) ==
    IF ordering \in {"originator_version", "-originator_version"}
    THEN "originator_version"
    ELSE IF ordering \in {"id", "-id"} THEN "id" ELSE "notification_id"

First(S, ordering) ==
    CHOOSE r \in S : \A q \in S :
        IF Descending(ordering)
        THEN q[Field(ordering)] <= r[Field(ordering)]
        ELSE r[Field(ordering)] <= q[Field(ordering)]

RECURSIVE order_by(_, _)
order_by(S, ordering) ==
    IF S = {} THEN <<>>
    ELSE LET r == First(S, ordering)
         IN  <<r>> \o order_by(S \ {r}, ordering)

\* variant: the slice is not applied
SliceUnbounded(q, limit) == q

\* q[0:limit]
Slice(q, limit) ==
    IF limit >= Len(q) THEN q ELSE SubSeq(q, 1, limit)

\* variant: desc is ignored
VersionOrderingAscending(desc) == "originator_version"

\* ("" if not desc else "-") + "originator_version"
VersionOrdering(desc) ==
    IF ~desc THEN "originator_version" ELSE "-originator_version"

StoredEvent(r) ==
    [originator_id |-> r.originator_id,
     originator_version |-> r.originator_version,
     topic |-> r.topic,
     state |-> ToBytes(Fetched(r.state))]

Notification(r) ==
    [id |-> r.id,
     originator_id |-> r.originator_id,
     originator_version |-> r.originator_version,
     topic |-> r.topic,
     state |-> ToBytes(Fetched(r.state))]

select_events(app, originator_id, gt, lte, desc, limit) ==
    LET q0 == {r \in VisibleRecords :
                 /\ r.application_name = app
                 /\ r.originator_id = originator_id}
        q1 == {r \in q0 : \A g \in gt : r.originator_version > g}
        q2 == {r \in q1 : \A l \in lte : r.originator_version <= l}
        q3 == order_by(q2, VersionOrdering(desc))
        q4 == IF limit = None THEN q3 ELSE Slice(q3, CHOOSE n \in limit : TRUE)
    IN  [i \in 1..Len(q4) |-> StoredEvent(q4[i])]

\* variant: the notifications are ordered by "-id"
select_notificationsDescending(app, start, limit) ==
    LET q0 == {r \in VisibleRecords : r.application_name = app}
        q1 == {r \in q0 : r.id >= start}
        q2 == Slice(order_by(q1, "-id"), limit)
    IN  [i \in 1..Len(q2) |-> Notification(q2[i])]

select_notifications(app, start, limit) ==
    LET q0 == {r \in VisibleRecords : r.application_name = app}
        q1 == {r \in q0 : r.id >= start}
        q2 == Slice(order_by(q1, "id"), limit)
    IN  [i \in 1..Len(q2) |-> Notification(q2[i])]

\* variant: the notifications are ordered by "id"
max_notification_idAscending(app) ==
    LET q == order_by({r \in VisibleRecords : r.application_name = app}, "id")
    IN  IF Len(q) > 0 THEN q[1].id ELSE 0

max_notification_id(app) ==
    LET q == order_by({r \in VisibleRecords : r.application_name = app}, "-id")
    IN  IF Len(q) > 0 THEN q[1].id ELSE 0

\* variant: the rows of every upstream application are looked at
max_tracking_idAnyUpstream(app, upstream) ==
    LET q == order_by({r \in VisibleTrackingRecords : r.application_name = app},
                      "-notification_id")
    IN  IF Len(q) > 0 THEN q[1].notification_id ELSE 0

max_tracking_id(app, upstream) ==
    LET q == order_by({r \in VisibleTrackingRecords :
                         /\ r.application_name = app
                         /\ r.upstream_application_name = upstream},
                      "-notification_id")
    IN  IF Len(q) > 0 THEN q[1].notification_id ELSE 0

\* ---------------------------------------------------------------- reader
\* a consumer pages with select_notifications(last id seen + 1, limit)
Limits == {1, 2}

Poll ==
    /\ CanRead(1)
    /\ \E limit \in Limits :
         LET page == select_notifications("app1", last_id_seen + 1, limit)
         IN  /\ page # <<>>
             /\ received' = received \o [i \in 1..Len(page) |-> page[i].id]
             /\ last_id_seen' = page[Len(page)].id
    /\ UNCHANGED <<store, ops, signal>>

\* callers of an application recorder
Next ==
    \E t \in Threads :
        \/ InsertEvents(t)
        \/ Serialize(t)
        \/ SaveRecord(t)
        \/ Commit(t)

Spec == Init /\ [][Next]_vars

\* callers of a process recorder
NextTracking ==
    \E t \in Threads :
        \/ InsertEventsTracking(t)
        \/ Serialize(t)
        \/ SaveRecord(t)
        \/ SaveTracking(t)
        \/ Commit(t)

SpecTracking == Init /\ [][NextTracking]_vars

\* one caller of an application recorder, call after call
NextSerial ==
    \/ InsertEvents(1)
    \/ Serialize(1)
    \/ SaveRecord(1)
    \/ Commit(1)

SpecSerial == Init /\ [][NextSerial]_vars

\* the writers on postgresql together with the paging consumer
InitPaging == Init /\ connection.vendor = "postgresql"

NextPaging == Next \/ Poll

SpecPaging == InitPaging /\ [][NextPaging]_vars

\* two process recorders with different application names on the same
\* tables: caller 1 uses the first, caller 2 the second
InitApps ==
    /\ connection \in Connections
    /\ recorder = [t \in Threads |-> t]
    /\ application_name = [t \in Threads |-> AppOf(recorder[t])]
    /\ lock = [r \in RecorderIds |-> 0]
    /\ table_lock = 0
    /\ records = {}
    /\ tracking_records = {}
    /\ next_id = 1
    /\ pc = [t \in Threads |-> "idle"]
    /\ stored_events = [t \in Threads |-> <<>>]
    /\ kwargs = [t \in Threads |-> None]
    /\ saved = [t \in Threads |-> 0]
    /\ call = [t \in Threads |-> 0]
    /\ calls = 0
    /\ log = <<>>
    /\ accepted = {}
    /\ last_id_seen = 0
    /\ received = <<>>
    /\ NoOperation
    /\ NoConnection

NextApps ==
    \E t \in Threads :
        \/ InsertEventsTracking(t)
        \/ Serialize(t)
        \/ SaveRecord(t)
        \/ SaveTracking(t)
        \/ Commit(t)

SpecApps == InitApps /\ [][NextApps]_vars

\* one caller of a process recorder whose backend calls may fail
NextFaults ==
    \/ InsertEventsShort(1)
    \/ Serialize(1)
    \/ SaveRecord(1)
    \/ SaveTracking(1)
    \/ Commit(1)
    \/ Fault(1)
    \/ ReadOperation(1)
    \/ ReadSerialize(1)
    \/ Query(1)
    \/ ReadFault(1)

SpecFaults == Init /\ [][NextFaults]_vars

\* the callers of one process recorder, in two threads, that append and read
InitLock ==
    /\ connection \in LockConnections
    /\ recorder = [t \in Threads |-> 1]
    /\ application_name = [t \in Threads |-> AppOf(recorder[t])]
    /\ lock = [r \in RecorderIds |-> 0]
    /\ table_lock = 0
    /\ records = {}
    /\ tracking_records = {}
    /\ next_id = 1
    /\ pc = [t \in Threads |-> "idle"]
    /\ stored_events = [t \in Threads |-> <<>>]
    /\ kwargs = [t \in Threads |-> None]
    /\ saved = [t \in Threads |-> 0]
    /\ call = [t \in Threads |-> 0]
    /\ calls = 0
    /\ log = <<>>
    /\ accepted = {}
    /\ last_id_seen = 0
    /\ received = <<>>
    /\ NoOperation
    /\ NoConnection

NextLock ==
    \E t \in Threads :
        \/ InsertEventsShort(t)
        \/ Serialize(t)
        \/ SaveRecord(t)
        \/ SaveTracking(t)
        \/ Commit(t)
        \/ ReadOperation(t)
        \/ ReadSerialize(t)
        \/ Query(t)

SpecLock == InitLock /\ [][NextLock]_vars

\* the same callers on an in-memory sqlite database, where every thread
\* that can go on inside an operation does so: the backend calls return and
\* the lock is handed to a thread that keeps waiting for it
InitMemory ==
    /\ InitLock
    /\ HasLock(connection)

Proceed(t) ==
    \/ Serialize(t)
    \/ SaveRecord(t)
    \/ SaveTracking(t)
    \/ Commit(t)
    \/ ReadSerialize(t)
    \/ Query(t)

SpecLockFair ==
    InitMemory /\ [][NextLock]_vars /\ \A t \in Threads : WF_vars(Proceed(t))

\* the process after the module is loaded: threads create connections, the
\* database files are in the journal mode they were left in
InitSignal ==
    /\ connection = [vendor |-> "sqlite", name |-> "db.sqlite3"]
    /\ recorder = [t \in Threads |-> 1]
    /\ application_name = [t \in Threads |-> AppOf(recorder[t])]
    /\ lock = [r \in RecorderIds |-> 0]
    /\ table_lock = 0
    /\ records = {}
    /\ tracking_records = {}
    /\ next_id = 1
    /\ pc = [t \in Threads |-> "idle"]
    /\ stored_events = [t \in Threads |-> <<>>]
    /\ kwargs = [t \in Threads |-> None]
    /\ saved = [t \in Threads |-> 0]
    /\ call = [t \in Threads |-> 0]
    /\ calls = 0
    /\ log = <<>>
    /\ accepted = {}
    /\ last_id_seen = 0
    /\ received = <<>>
    /\ NoOperation
    /\ created = <<>>
    /\ handler = [t \in Threads |-> [pc |-> "idle", connection |-> 0, mode |-> "none"]]
    /\ journal_modes = [n \in {} |-> "WAL"]
    /\ journal_mode \in [FileNames -> {"delete", "wal"}]
    /\ pragmas = <<>>

NextSignal ==
    \E t \in Threads :
        \/ ConnectionCreated(t)
        \/ QueryJournalMode(t)
        \/ SetJournalModeWal(t)
        \/ StoreJournalMode(t)

SpecSignal == InitSignal /\ [][NextSignal]_vars

\* two process applications that follow two upstream logs
NextProcess ==
    \E t \in Threads :
        \/ InsertEventsProcess(t)
        \/ Serialize(t)
        \/ SaveRecord(t)
        \/ SaveTracking(t)
        \/ Commit(t)

SpecProcess == InitApps /\ [][NextProcess]_vars

\* ================================================================ claims
Calls == 1..Len(log)

Range(q) == {q[i] : i \in 1..Len(q)}

Finished(c) == log[c].outcome # "running"

Failed(c) == log[c].outcome \notin {"running", "ok"}

\* the (originator_id, originator_version) pairs of the batch of call c
KeysOf(c) ==
    {<<e.originator_id, e.originator_version>> : e \in Range(log[c].stored_events)}

SelfDuplicate(c) == Cardinality(KeysOf(c)) < Len(log[c].stored_events)

\* the rows of call c that the reads of a caller return: through the ids of
\* select_notifications and through the events of select_events
SeenInNotifications(c) ==
    LET page == select_notifications(log[c].application_name, 1, next_id)
        ids == {n.id : n \in Range(page)}
    IN  {r \in records : r.call = c /\ r.id \in ids}

SeenInEvents(c) ==
    {r \in records :
        /\ r.call = c
        /\ \E e \in Range(select_events(log[c].application_name, r.originator_id,
                                        None, None, FALSE, None)) :
              e.originator_version = r.originator_version}

\* what select_events of every aggregate and max_notification_id return
EventReads ==
    [app \in Apps |->
        <<[o \in OriginatorIds |-> select_events(app, o, None, None, FALSE, None)],
          max_notification_id(app)>>]

\* the step writes no row and takes none away
TablesUntouched ==
    records' = records /\ tracking_records' = tracking_records

\* the step is the successful end of a call
CommitStep == \E t \in Threads : pc[t] = "commit" /\ pc'[t] = "idle"

\* C1: a read sees none or all of the rows of an insert_events call, and none
\* of the rows of a call that failed, whatever was saved before the failure
C1_AllOrNothing ==
    \A t \in Threads : CanRead(t) =>
        \A c \in Calls :
            /\ Cardinality(SeenInNotifications(c)) \in {0, Len(log[c].stored_events)}
            /\ SeenInEvents(c) = SeenInNotifications(c)
            /\ max_notification_id(log[c].application_name) >=
                   Cardinality(SeenInNotifications(c))
            /\ Failed(c) => SeenInNotifications(c) = {}
            /\ log[c].outcome = "ok" =>
                   Cardinality(SeenInNotifications(c)) = Len(log[c].stored_events)

\* a call failed after it had saved a record, and a batch of two for two
\* aggregates is committed
C1_Witness ==
    /\ \E c \in Calls : Failed(c) /\ log[c].written >= 1
    /\ \E c \in Calls :
          /\ log[c].outcome = "ok"
          /\ Cardinality(SeenInNotifications(c)) = 2
          /\ Cardinality({r.originator_id : r \in SeenInNotifications(c)}) = 2

\* C2: the tracking row of an insert_events(events, tracking=T) call is visible
\* only together with all event rows of the call, no event row of the call is
\* visible without it, and after a failed call neither is visible
VisibleOf(c) == {r \in VisibleRecords : r.call = c}

VisibleTrackingOf(c) == {r \in VisibleTrackingRecords : r.call = c}

C2_TrackingAtomicity ==
    \A c \in Calls : log[c].tracking # None =>
        /\ VisibleTrackingOf(c) # {} =>
              Cardinality(VisibleOf(c)) = Len(log[c].stored_events)
        /\ VisibleOf(c) # {} => VisibleTrackingOf(c) # {}
        /\ Failed(c) => VisibleOf(c) = {} /\ VisibleTrackingOf(c) = {}
        /\ log[c].outcome = "ok" =>
              /\ Cardinality(VisibleTrackingOf(c)) = 1
              /\ \A k \in log[c].tracking :
                    max_tracking_id(log[c].application_name, k.application_name)
                        >= k.notification_id

\* the tracking save of a call failed after its event rows were written, and
\* another call committed events together with its tracking row
C2_Witness ==
    /\ \E c \in Calls :
          /\ log[c].tracking # None
          /\ Failed(c)
          /\ log[c].written = Len(log[c].stored_events)
          /\ log[c].written >= 1
    /\ \E c \in Calls :
          /\ VisibleTrackingOf(c) # {}
          /\ VisibleOf(c) # {}

\* C3: of two concurrent calls that both hold an event of the same key, each
\* acceptable on its own, exactly one returns and the other raises
\* IntegrityError, and the one row with that key is the winner's
Concurrent(c1, c2) ==
    /\ c1 < c2
    /\ log[c1].thread # log[c2].thread
    /\ c1 \in log[c2].overlap

Contend(c1, c2) ==
    /\ Concurrent(c1, c2)
    /\ Finished(c1) /\ Finished(c2)
    /\ ~log[c1].conflict /\ ~log[c2].conflict
    /\ ~SelfDuplicate(c1) /\ ~SelfDuplicate(c2)
    /\ KeysOf(c1) \cap KeysOf(c2) # {}

C4_State ==
    \A c \in Calls : (Finished(c) /\ log[c].conflict) =>
        /\ log[c].outcome = "IntegrityError"
        /\ {r \in records : r.call = c} = {}
        /\ SeenInEvents(c) = {}

C4_DuplicateRejected ==
    /\ []C4_State
    /\ [][~CommitStep => (TablesUntouched \/ EventReads' = EventReads)]_vars

\* a batch with a committed key failed after it had saved an event of
\* another aggregate
C4_Witness ==
    \E c \in Calls :
        /\ log[c].conflict
        /\ log[c].outcome = "IntegrityError"
        /\ log[c].written >= 1
        /\ Cardinality({k[1] : k \in KeysOf(c)}) = 2

\* the committed versions of one aggregate
VersionsOf(app, o) ==
    {r.originator_version :
        r \in {q \in VisibleRecords :
                 q.application_name = app /\ q.originator_id = o}}

BaseVersion == CHOOSE v \in Versions : \A w \in Versions : v <= w

Alone(c) ==
    /\ log[c].overlap = {}
    /\ \A d \in Calls : c \notin log[d].overlap

C6_State ==
    \A c \in Calls : (Finished(c) /\ log[c].tracked) =>
        /\ log[c].outcome = "IntegrityError"
        /\ VisibleOf(c) = {}
        /\ VisibleTrackingOf(c) = {}
        /\ SeenInNotifications(c) = {}

Maxima ==
    [app \in Apps |->
        <<max_notification_id(app),
          [u \in Upstreams |-> max_tracking_id(app, u)]>>]

C6_DuplicateTracking ==
    /\ []C6_State
    /\ [][~CommitStep => (TablesUntouched \/ Maxima' = Maxima)]_vars

\* a call with an already committed tracking value failed after it had
\* written an event row
C6_Witness ==
    \E c \in Calls :
        /\ log[c].tracked
        /\ log[c].outcome = "IntegrityError"
        /\ log[c].written >= 1
        /\ max_tracking_id(log[c].application_name, "upstream") >= 1

\* C7: with the table lock of postgresql, the consumer that pages with
\* start = last id seen + 1 has received exactly the committed notifications
\* up to the last id it has seen, each once and in id order
Ascending(q) == \A i, j \in 1..Len(q) : i < j => q[i] < q[j]

C7_GapFreePaging ==
    connection.vendor = "postgresql" =>
        /\ Ascending(received)
        /\ Range(received) =
              {r.id : r \in {q \in VisibleRecords :
                               /\ q.application_name = "app1"
                               /\ q.id <= last_id_seen}}
        /\ last_id_seen <= max_notification_id("app1")

\* the consumer has received notifications of two calls that overlapped
C7_Witness ==
    \E c1, c2 \in Calls :
        /\ Concurrent(c1, c2)
        /\ \E r \in VisibleOf(c1) : r.id \in Range(received)
        /\ \E r \in VisibleOf(c2) : r.id \in Range(received)

\* C8: max_notification_id never decreases, no two committed notifications
\* share an id, and every list of select_notifications has increasing ids
C8_State ==
    /\ \A r, q \in VisibleRecords : r.id = q.id => r = q
    /\ \A app \in Apps, start \in 1..2, limit \in {2, next_id} :
          LET page == select_notifications(app, start, limit)
          IN  \A i, j \in 1..Len(page) : i < j => page[i].id < page[j].id

C8_Monotonic ==
    /\ []C8_State
    /\ [][\A app \in Apps :
             max_notification_id(app)' >= max_notification_id(app)]_vars

\* notifications of two aggregates are committed and a call has failed
\* after it was given an id
C8_Witness ==
    /\ Cardinality({r.originator_id : r \in VisibleRecords}) = 2
    /\ Len(select_notifications("app1", 1, 3)) >= 2
    /\ \E c \in Calls : Failed(c) /\ log[c].written >= 1

\* C9: select_events(originator_id) returns the events of the successful
\* calls for that aggregate, by ascending version, with the topic and state
\* that were passed in
AcceptedEvents(app, o) ==
    {[originator_id |-> a.originator_id,
      originator_version |-> a.originator_version,
      topic |-> a.topic, state |-> a.state] :
        a \in {b \in accepted : b.application_name = app /\ b.originator_id = o}}

C9_RoundTrip ==
    \A t \in Threads : CanRead(t) =>
        \A o \in OriginatorIds :
            LET q == select_events(application_name[t], o, None, None, FALSE, None)
            IN  /\ Range(q) = AcceptedEvents(application_name[t], o)
                /\ Len(q) = Cardinality(AcceptedEvents(application_name[t], o))
                /\ \A i, j \in 1..Len(q) :
                      i < j => q[i].originator_version < q[j].originator_version

\* two versions of one aggregate are read back on postgresql, and nothing of
\* a failed call that had saved an event of another aggregate
C9_Witness ==
    /\ connection.vendor = "postgresql"
    /\ Len(select_events("app1", "A", None, None, FALSE, None)) = 2
    /\ select_events("app1", "B", None, None, FALSE, None) = <<>>
    /\ \E c \in Calls :
          /\ Failed(c)
          /\ log[c].written >= 1
          /\ log[c].stored_events[1].originator_id = "B"

\* C10: select_events returns the committed events of the aggregate with
\* gt < version <= lte, by ascending or (desc) descending version, cut to the
\* first limit of that order
Bounds == Optional(0..MaxVersion)

InRange(app, o, gt, lte) ==
    {r \in VisibleRecords :
        /\ r.application_name = app
        /\ r.originator_id = o
        /\ \A g \in gt : r.originator_version > g
        /\ \A l \in lte : r.originator_version <= l}

C10_Selected(app, o, gt, lte, desc, limit) ==
    LET q == select_events(app, o, gt, lte, desc, limit)
        all == InRange(app, o, gt, lte)
        got == {r \in all : \E i \in 1..Len(q) :
                                /\ q[i].originator_version = r.originator_version
                                /\ q[i].originator_id = o
                                /\ q[i].topic = r.topic
                                /\ q[i].state = r.state}
    IN  /\ Cardinality(got) = Len(q)
        /\ IF limit = None \/ \A n \in limit : n >= Cardinality(all)
           THEN Len(q) = Cardinality(all)
           ELSE \A n \in limit : Len(q) = n
        /\ \A i, j \in 1..Len(q) : i < j =>
              IF desc THEN q[i].originator_version > q[j].originator_version
                      ELSE q[i].originator_version < q[j].originator_version
        /\ \A r \in all \ got : \A s \in got :
              IF desc THEN r.originator_version < s.originator_version
                      ELSE r.originator_version > s.originator_version

C10_SelectEvents ==
    \A app \in Apps, o \in OriginatorIds, gt \in Bounds, lte \in Bounds,
       desc \in BOOLEAN, limit \in Bounds :
        C10_Selected(app, o, gt, lte, desc, limit)

\* two versions of an aggregate are committed, so that desc with limit 1
\* and the bounds make a difference
C10_Witness ==
    /\ Len(select_events("app1", "A", None, None, TRUE, Some(1))) = 1
    /\ select_events("app1", "A", None, None, TRUE, Some(1))[1].originator_version = 2
    /\ Len(select_events("app1", "A", Some(1), Some(2), FALSE, None)) = 1
    /\ Len(select_events("app1", "B", None, None, FALSE, None)) = 1

\* the committed rows of an application with an id from start on
Matching(app, start) ==
    {r \in records :
        /\ r.owner = Committed
        /\ r.application_name = app
        /\ r.id >= start}

\* C11: select_notifications(start, limit) returns committed notifications
\* of the recorder's application with id >= start and no others, by
\* ascending id, all of them when they are at most limit and otherwise the
\* limit ones with the lowest ids
C11_SelectNotifications ==
    \A app \in Apps, start \in 0..next_id, limit \in 0..next_id :
        LET page == select_notifications(app, start, limit)
            match == Matching(app, start)
        IN  /\ \A i \in 1..Len(page) : \E r \in match :
                   page[i] = [id |-> r.id,
                              originator_id |-> r.originator_id,
                              originator_version |-> r.originator_version,
                              topic |-> r.topic,
                              state |-> r.state]
            /\ \A i, j \in 1..Len(page) : i < j => page[i].id < page[j].id
            /\ Len(page) = IF Cardinality(match) > limit
                           THEN limit ELSE Cardinality(match)
            /\ \A r \in match :
                   (\A i \in 1..Len(page) : page[i].id # r.id) =>
                       \A i \in 1..Len(page) : page[i].id < r.id

\* an application has more notifications from start on than the limit and
\* another application's notification lies between them, and a start above
\* one of its notifications still leaves a notification to return
C11_Witness ==
    \E app \in Apps :
        /\ \E start \in 1..next_id, limit \in 1..next_id :
              /\ Cardinality(Matching(app, start)) > limit
              /\ Len(select_notifications(app, start, limit)) = limit
              /\ \E r \in VisibleRecords, q \in Matching(app, start) :
                    /\ r.application_name # app
                    /\ start <= r.id /\ r.id < q.id
        /\ \E start \in 1..next_id :
              /\ \E r \in Matching(app, 0) : r.id < start
              /\ select_notifications(app, start, next_id) # <<>>

\* the first call of the store put versions 1..k of one aggregate into it,
\* no call ran beside it, and every later call was rejected
FirstThenRejected ==
    /\ Len(log) >= 2
    /\ log[1].outcome = "ok"
    /\ Alone(1)
    /\ Len(log[1].stored_events) >= 1
    /\ \A i \in 1..Len(log[1].stored_events) :
          /\ log[1].stored_events[i].originator_id =
                 log[1].stored_events[1].originator_id
          /\ log[1].stored_events[i].originator_version = i
    /\ \A d \in Calls \ {1} : Failed(d)

\* the step is the failure of a call
FailStep ==
    \E c \in Calls :
        log[c].outcome = "running" /\ log'[c].outcome \notin {"running", "ok"}

\* C12: max_notification_id is the highest id of the committed notifications
\* of the application and 0 when it has none, the failure of a call does not
\* change it, and after versions 1..k of one aggregate went into the empty
\* store and every later call was rejected it is k
C12_State ==
    /\ \A app \in Apps :
          LET ids == {r.id : r \in Matching(app, 0)}
          IN  max_notification_id(app) =
                  IF ids = {} THEN 0
                  ELSE CHOOSE m \in ids : \A x \in ids : x <= m
    /\ FirstThenRejected =>
          max_notification_id(log[1].application_name) =
              Len(log[1].stored_events)

C12_MaxNotificationId ==
    /\ []C12_State
    /\ [][FailStep => \A app \in Apps :
                         max_notification_id(app)' = max_notification_id(app)]_vars

\* versions 1..MaxBatch of an aggregate were inserted into the empty store
\* and the same application's next call was rejected
C12_Witness ==
    /\ FirstThenRejected
    /\ Len(log[1].stored_events) = MaxBatch
    /\ log[2].application_name = log[1].application_name
    /\ log[2].outcome = "IntegrityError"
    /\ max_notification_id(log[1].application_name) = MaxBatch

\* the committed tracking rows of an application for one upstream log
TrackedPositions(app, upstream) ==
    {r.notification_id :
        r \in {q \in tracking_records :
                 /\ q.owner = Committed
                 /\ q.application_name = app
                 /\ q.upstream_application_name = upstream}}

\* the step is the successful end of a call of app with a tracking value
\* of upstream
TrackingCommit(app, upstream) ==
    \E t \in Threads :
        /\ pc[t] = "commit" /\ pc'[t] = "idle"
        /\ application_name[t] = app
        /\ \E k \in kwargs[t] : k.application_name = upstream

\* C13: max_tracking_id(upstream) is the highest notification_id of the
\* committed tracking rows of (application, upstream) and 0 when there is
\* none; a call with a tracking value that is not recorded yet succeeds,
\* also below the current maximum; the value never decreases and changes
\* only when a call of the same application with a tracking value of the
\* same upstream commits
C13_State ==
    /\ \A app \in Apps, u \in UpstreamNames :
          LET ids == TrackedPositions(app, u)
          IN  max_tracking_id(app, u) =
                  IF ids = {} THEN 0
                  ELSE CHOOSE m \in ids : \A x \in ids : x <= m
    /\ \A c \in Calls :
          (/\ Finished(c)
           /\ log[c].tracking # None
           /\ ~log[c].tracked
           /\ ~log[c].conflict) =>
              /\ log[c].outcome = "ok"
              /\ \A k \in log[c].tracking :
                    k.notification_id \in
                        TrackedPositions(log[c].application_name, k.application_name)

C13_MaxTrackingId ==
    /\ []C13_State
    /\ [][\A app \in Apps, u \in UpstreamNames :
             /\ max_tracking_id(app, u)' >= max_tracking_id(app, u)
             /\ max_tracking_id(app, u)' # max_tracking_id(app, u) =>
                    TrackingCommit(app, u)]_vars

\* an application recorded a position of an upstream log after a higher
\* position of the same log, and the higher one is the result
C13_Witness ==
    \E c, d \in Calls, u \in UpstreamNames :
        /\ c < d
        /\ log[c].application_name = log[d].application_name
        /\ log[c].outcome = "ok" /\ log[d].outcome = "ok"
        /\ \E k \in log[c].tracking, l \in log[d].tracking :
              /\ k.application_name = u /\ l.application_name = u
              /\ l.notification_id < k.notification_id
              /\ max_tracking_id(log[c].application_name, u) = k.notification_id
              /\ TrackedPositions(log[c].application_name, u) =
                     {k.notification_id, l.notification_id}

\* what the reads of the recorder of one application return
ReadsOf(app) ==
    <<[o \in OriginatorIds |-> select_events(app, o, None, None, FALSE, None)],
      select_notifications(app, 0, next_id),
      [u \in Upstreams |-> max_tracking_id(app, u)]>>

\* the step is the successful end of a call of the recorder of app
CommitOf(app) ==
    \E t \in Threads :
        /\ pc[t] = "commit" /\ pc'[t] = "idle"
        /\ application_name[t] = app

\* C14: of two recorders with different application names on the same
\* tables, a call whose keys and tracking value are new in its own
\* application succeeds whatever the other application holds, and the
\* results of select_events, select_notifications and max_tracking_id of an
\* application change at no step that writes or removes a row but the commit
\* of a call of its own recorder
C14_State ==
    /\ application_name[1] # application_name[2]
    /\ \A c \in Calls :
          (/\ Finished(c)
           /\ ~log[c].conflict
           /\ ~log[c].tracked
           /\ ~SelfDuplicate(c)) =>
              /\ log[c].outcome = "ok"
              /\ Cardinality(VisibleOf(c)) = Len(log[c].stored_events)

C14_Partitioning ==
    /\ []C14_State
    /\ [][TablesUntouched \/
             \A app \in Apps : ReadsOf(app)' # ReadsOf(app) => CommitOf(app)]_vars

\* each application committed an event with the same originator_id and
\* originator_version, and the calls ran side by side
C14_Witness ==
    \E c, d \in Calls :
        /\ log[c].application_name # log[d].application_name
        /\ log[c].outcome = "ok" /\ log[d].outcome = "ok"
        /\ Concurrent(c, d)
        /\ KeysOf(c) \cap KeysOf(d) # {}
        /\ \E r \in VisibleOf(c), q \in VisibleOf(d) :
              /\ r.originator_id = q.originator_id
              /\ r.originator_version = q.originator_version
        /\ \E k \in log[c].tracking : k \in log[d].tracking

\* the error kinds of eventsourcing.persistence
Taxonomy ==
    {"InterfaceError", "DataError", "OperationalError", "IntegrityError",
     "InternalError", "ProgrammingError", "NotSupportedError", "DatabaseError",
     "PersistenceError"}

\* the kind with the name of the backend class, DatabaseError for the other
\* database errors, PersistenceError for the other backend errors
MostSpecific(e) ==
    CASE e = "django.db.InterfaceError" -> "InterfaceError"
      [] e = "django.db.DataError" -> "DataError"
      [] e = "django.db.OperationalError" -> "OperationalError"
      [] e = "django.db.IntegrityError" -> "IntegrityError"
      [] e = "django.db.InternalError" -> "InternalError"
      [] e = "django.db.ProgrammingError" -> "ProgrammingError"
      [] e = "django.db.NotSupportedError" -> "NotSupportedError"
      [] e = "django.db.DatabaseError" -> "DatabaseError"
      [] OTHER -> "PersistenceError"

\* how the finished operations ended: what was raised inside, what came out
Endings ==
    {[outcome |-> log[c].outcome, cause |-> log[c].cause] :
        c \in {d \in Calls : Finished(d)}}
    \cup {result[t] : t \in {u \in Threads :
                                result[u].outcome \notin {"none", "running"}}}

\* C15 as stated: every failure inside a public operation comes out as an
\* error of the taxonomy, the most specific match, PersistenceError for
\* whatever matches nothing else
C15_EveryFailureNormalised ==
    \A x \in Endings :
        x.cause # "none" => x.outcome = MostSpecific(x.cause)

\* C15: an operation in which an exception was raised does not return; a
\* backend exception comes out as the most specific kind of the taxonomy,
\* and an exception that is no backend exception comes out as it is
C15_ErrorNormalisation ==
    \A x \in Endings :
        /\ x.cause = "none" <=> x.outcome \in {"ok", "returned"}
        /\ x.cause \in BackendExceptions =>
              /\ x.outcome = MostSpecific(x.cause)
              /\ x.outcome \in Taxonomy
        /\ x.cause \notin BackendExceptions \cup {"none"} =>
              /\ x.outcome = x.cause
              /\ x.outcome \notin Taxonomy

\* an insert_events call ended with PersistenceError for a backend error
\* that is no database error, another with the kind of a database error,
\* and a read operation with the exception of a negative limit
C15_Witness ==
    /\ \E c \in Calls :
          /\ log[c].cause = "django.db.Error"
          /\ log[c].outcome = "PersistenceError"
    /\ \E c \in Calls :
          /\ log[c].cause = "django.db.NotSupportedError"
          /\ log[c].outcome = "NotSupportedError"
          /\ log[c].written >= 1
    /\ result[1] = [outcome |-> "ValueError", cause |-> "ValueError"]

\* the step belongs to a read operation
ReadStep ==
    \E t \in Threads :
        /\ pc'[t] # pc[t]
        /\ pc[t] \in {"read", "query"} \/ pc'[t] = "read"

\* C16: a committed event row and a committed tracking row are still in
\* their table after every step, with every field as it was, and a step of
\* a read operation changes no row of either table
C16_AppendOnly ==
    [][/\ \A r \in records : r.owner = Committed => r \in records'
       /\ \A r \in tracking_records :
             r.owner = Committed => r \in tracking_records'
       /\ ReadStep => TablesUntouched]_vars

\* an event row and a tracking row are committed, a later call was
\* rejected and rolled back, and a read operation has returned
C16_Witness ==
    /\ \E r \in records : r.owner = Committed
    /\ \E r \in tracking_records : r.owner = Committed
    /\ \E c, d \in Calls :
          /\ c < d
          /\ log[c].outcome = "ok"
          /\ Failed(d)
    /\ \E t \in Threads : result[t].outcome = "returned"

\* the caller is between the acquire and the release of serialize(): in the
\* transaction of insert_events or in the query of a read operation
Appending(t) == pc[t] \in {"save", "tracking", "commit"}

InSection(t) == Appending(t) \/ pc[t] = "query"

\* C17: with an in-memory sqlite database at most one caller is inside
\* serialize() and that caller holds the lock of its recorder, so the
\* uncommitted rows are those of the one insert_events call in progress and
\* no read operation queries while a call appends; with any other database
\* no lock is ever held. It holds for the callers of one recorder object
\* and fails for two recorder objects on the same database, which have a
\* lock each
C17_Serialised ==
    /\ HasLock(connection) =>
          /\ Cardinality({t \in Threads : InSection(t)}) <= 1
          /\ \A t \in Threads : InSection(t) <=> lock[recorder[t]] = t
          /\ \A r \in records \cup tracking_records :
                r.owner # Committed => Appending(r.owner)
          /\ \A t, u \in Threads : ~(Appending(t) /\ pc[u] = "query")
    /\ ~HasLock(connection) => \A r \in RecorderIds : lock[r] = 0

\* connection number i is to a sqlite database file
FileConnection(i) ==
    detect_sqlite(created[i]) /\ ~detect_sqlite_memory_mode(created[i])

\* connection number i is the first one created for its database name
FirstObserved(i) ==
    \A j \in 1..(i - 1) : created[j] # created[i]

\* the handler of connection number i is not running
Handled(i) ==
    \A t \in Threads : handler[t].connection = i => handler[t].pc = "idle"

\* C18: every pragma is executed for the first connection created for the
\* name of a sqlite database file, the switch to WAL at most once per name;
\* once the handler of that connection is through, journal_modes holds
\* "WAL" for the name; journal_modes has no entry for another name
C18_WalOncePerFile ==
    /\ \A i \in 1..Len(pragmas) :
          /\ FileConnection(pragmas[i].connection)
          /\ FirstObserved(pragmas[i].connection)
    /\ \A i, j \in 1..Len(pragmas) :
          (/\ pragmas[i].statement = "PRAGMA journal_mode=WAL;"
           /\ pragmas[j].statement = "PRAGMA journal_mode=WAL;"
           /\ created[pragmas[i].connection] = created[pragmas[j].connection]) =>
              i = j
    /\ \A i \in 1..Len(created) :
          (FileConnection(i) /\ FirstObserved(i) /\ Handled(i)) =>
              Get(journal_modes, created[i].name) = "WAL"
    /\ \A n \in DOMAIN journal_modes :
          /\ journal_modes[n] = "WAL"
          /\ \E i \in 1..Len(created) : FileConnection(i) /\ created[i].name = n

\* the caller has entered an operation and waits in serialize() for the lock
Waiting(t) == pc[t] \in {"serialize", "read"}

\* C19: with an in-memory sqlite database the lock is held by nobody but a
\* caller inside serialize(), so it is free after an operation has returned
\* or raised; a caller that waits for the lock gets it, and a caller inside
\* an operation leaves it
C19_LockReleased ==
    /\ [](\A r \in RecorderIds : lock[r] # 0 => InSection(lock[r]))
    /\ \A t \in Threads :
          /\ Waiting(t) ~> lock[recorder[t]] = t
          /\ pc[t] # "idle" ~> pc[t] = "idle"

\* an insert_events call has raised IntegrityError and the other caller,
\* which had entered its own call while that one ran, holds the lock
C19_Witness ==
    /\ HasLock(connection)
    /\ \E c \in Calls, u \in Threads :
          /\ log[c].outcome = "IntegrityError"
          /\ log[c].thread # u
          /\ InSection(u)
          /\ lock[recorder[u]] = u
          /\ \/ pc[u] = "query"
             \/ c \in log[call[u]].overlap

\* the step is one of the insert_events call of thread t
Acts(t) ==
    /\ pc[t] \in {"serialize", "save", "tracking", "commit"}
    /\ pc'[t] # pc[t] \/ saved'[t] # saved[t]

Higher(m, n) == IF m >= n THEN m ELSE n

\* C20: insert_events([], tracking=T) with a T that is not recorded yet
\* returns and leaves one tracking row and no event row: at its commit
\* max_tracking_id of T's upstream becomes the higher of its value and
\* T.notification_id, while max_notification_id and the select_events
\* results stay; a call without tracking value writes no tracking row, and
\* a call with no event and no tracking value changes no table
C20_State ==
    \A c \in Calls :
        /\ (/\ Finished(c)
            /\ log[c].stored_events = <<>>
            /\ log[c].tracking # None
            /\ ~log[c].tracked) =>
               /\ log[c].outcome = "ok"
               /\ {r \in records : r.call = c} = {}
               /\ Cardinality({r \in tracking_records : r.call = c}) = 1
               /\ \A r \in tracking_records : r.call = c =>
                     /\ r.owner = Committed
                     /\ r.application_name = log[c].application_name
                     /\ \E k \in log[c].tracking :
                           /\ r.upstream_application_name = k.application_name
                           /\ r.notification_id = k.notification_id
        /\ log[c].tracking = None => {r \in tracking_records : r.call = c} = {}
        /\ (log[c].stored_events = <<>> /\ log[c].tracking = None) =>
               /\ log[c].outcome \in {"running", "ok"}
               /\ {r \in records : r.call = c} = {}

C20_TrackingWithoutEvents ==
    /\ []C20_State
    /\ [][\A t \in Threads :
             /\ (Acts(t) /\ pc'[t] = "idle" /\ pc[t] = "commit"
                    /\ stored_events[t] = <<>>) =>
                   /\ EventReads' = EventReads
                   /\ records' = records
                   /\ \A k \in kwargs[t] :
                         max_tracking_id(application_name[t], k.application_name)' =
                             Higher(max_tracking_id(application_name[t],
                                                    k.application_name),
                                    k.notification_id)
             /\ (Acts(t) /\ kwargs[t] = None) =>
                   tracking_records' = tracking_records
             /\ (Acts(t) /\ kwargs[t] = None /\ stored_events[t] = <<>>) =>
                   TablesUntouched /\ next_id' = next_id]_vars

\* an application that holds an event and a position of an upstream log
\* has recorded a lower position of that log with a call without events,
\* and a call with no event and no tracking value has returned
C20_Witness ==
    \E c, d \in Calls :
        /\ log[c].application_name = log[d].application_name
        /\ log[c].outcome = "ok" /\ log[d].outcome = "ok"
        /\ c < d
        /\ Len(log[c].stored_events) = 1
        /\ log[d].stored_events = <<>>
        /\ \E k \in log[c].tracking, l \in log[d].tracking :
              /\ k.application_name = l.application_name
              /\ l.notification_id < k.notification_id
              /\ max_tracking_id(log[d].application_name, l.application_name) =
                     k.notification_id
        /\ max_notification_id(log[d].application_name) >= 1
====
